---- MODULE Spec2Model ----
(***************************************************************************)
(* Model of the flood-risk routing engine of Sheltr                        *)
(* (backend/comprehensive_route_calculator.py, ComprehensiveFloodRiskRouter*)
(* and the route endpoint of backend/sheltr_backend.py).                   *)
(*                                                                         *)
(* Numbers.  A safety probability p is held as the integer P = 10 * p      *)
(* (tenths), and every edge weight / path cost as the integer number of    *)
(* tenths of a cost unit (Unit = 10), so that the four weight formulas of  *)
(* create_enhanced_graph, which use the factors 1000, 10000 and 0.1, are   *)
(* exact on integers.  Edge distances (the 'cost' column) are integers.    *)
(* A node key is the string "x,y"; it is held as <<x, y, f>> where f is    *)
(* the way the two numbers are written (see KeyStr).                       *)
(***************************************************************************)
EXTENDS Integers, Sequences, FiniteSets, TLC

VARIABLES
    graph_data,            \* self.graph_data: the edge records, in file order
    safety_data,           \* self.safety_data: rows (HubName, pred_prob_safe)
    graph_file_full,       \* 'segments_graph_full' in self.graph_file
    safety_weights,        \* self.safety_weights: segment id -> probability
    segment_id_map,        \* self.segment_id_map: row index -> HubName
    connected_components,  \* self.connected_components (a list of sets)
    graph,                 \* self.graph
    pc,                    \* per request thread: position in find_optimal_route
    req,                   \* per request thread: the arguments of the call
    loc,                   \* per request thread: locals of dijkstra_shortest_path
    sol,                   \* per request thread: what dijkstra_shortest_path returned
    result,                \* per request thread: what find_optimal_route returned
    prev,                  \* the call before the last one, as its caller holds it
    cmp,                   \* compare_routing_strategies: its arguments and locals
    closest,               \* find_closest_nodes called on its own: arguments, result
    safe_points_utm,       \* sheltr_backend.safe_points_utm: list of (x, y)
    response               \* the request the serving layer handled and its response

vars == <<graph_data, safety_data, graph_file_full, safety_weights,
          segment_id_map, connected_components, graph, pc, req, loc, sol,
          result, prev, cmp, closest, safe_points_utm, response>>

serving == <<safe_points_utm, response>>

routerData == <<graph_data, safety_data, graph_file_full, safety_weights,
                segment_id_map, connected_components>>

-----------------------------------------------------------------------------
(* Bounds of the model *)

\* largest number of edge records in a generated edge source
MaxRows == 4

-----------------------------------------------------------------------------
(* Numbers of the program *)

\* stored weight units per cost unit (weights are held in tenths):
\* the factor 0.1 of the flood_risk formula
Unit == 10

\* float('inf'): larger than the cost of any path of the model
Infinity == 1000000000

\* the default safety probability 0.5, in tenths
DefaultSafety == 5

\* the default min_component_size of create_enhanced_graph
MinComponentSize == 2

-----------------------------------------------------------------------------
(* Node keys: the strings "x,y" of the 'from' and 'to' columns and of the  *)
(* query points.                                                           *)

\* f = 0: written as integers "x,y"; f = 1: written as floats "x.0,y.0"
\* (the form the route endpoint produces with f"{ux},{uy}"); f = 2: a key of
\* one number and no comma, "x", which does not parse into two numbers.
MkKey(x, y, f) == <<x, y, f>>

\* previous[node] = None
None == <<-1, -1, 0>>

RECURSIVE Digits(_)
\* the decimal digits of a natural number, as character codes
Digits(n) == IF n < 10 THEN <<48 + n>> ELSE Digits(n \div 10) \o <<48 + (n % 10)>>

\* the characters of a key
KeyStr(k) ==
    IF k[3] = 0
    THEN Digits(k[1]) \o <<44>> \o Digits(k[2])
    ELSE IF k[3] = 1
    THEN Digits(k[1]) \o <<46, 48, 44>> \o Digits(k[2]) \o <<46, 48>>
    ELSE Digits(k[1])

RECURSIVE SeqLess(_, _)
\* Python's s < t on strings (lexicographic on code points)
SeqLess(s, t) ==
    IF t = <<>> THEN FALSE
    ELSE IF s = <<>> THEN TRUE
    ELSE IF Head(s) # Head(t) THEN Head(s) < Head(t)
    ELSE SeqLess(Tail(s), Tail(t))

StrLess(a, b) == SeqLess(KeyStr(a), KeyStr(b))

\* x, y = map(float, key.split(',')) does not raise ValueError
Parsable(k) == k[3] \in {0, 1}

\* map(float, key.split(',')): the two numbers of a key
ParseKey(k) == <<k[1], k[2]>>

\* (target_x - node_x)**2 + (target_y - node_y)**2; np.sqrt is strictly
\* increasing, so distances are held and compared by their squares
Dist2(a, b) ==
    LET p == ParseKey(a)
        q == ParseKey(b)
    IN  (p[1] - q[1]) * (p[1] - q[1]) + (p[2] - q[2]) * (p[2] - q[2])

-----------------------------------------------------------------------------
(* Sequence helpers *)

Range(s) == {s[i] : i \in DOMAIN s}

Last(s) == s[Len(s)]

\* append x unless it is already there (insertion into an ordered dict)
AddOnce(s, x) == IF x \in Range(s) THEN s ELSE Append(s, x)

RECURSIVE SumSeq(_)
SumSeq(s) == IF s = <<>> THEN 0 ELSE Head(s) + SumSeq(Tail(s))

SetMin(S) == CHOOSE x \in S : \A y \in S : x <= y

SetMax(S) == CHOOSE x \in S : \A y \in S : x >= y

-----------------------------------------------------------------------------
(* load_data *)

\* self.segment_id_map: with the full graph file, str(idx) -> str(int(HubName))
\* for every row of the safety data (idx is the 0-based row index)
LoadSegmentIdMap(sdata, full) ==
    IF full
    THEN [i \in 0..(Len(sdata) - 1) |-> sdata[i + 1].HubName]
    ELSE <<>>

\* self.safety_weights = dict(zip(HubName, pred_prob_safe)): a later row of
\* the same HubName replaces an earlier one
LoadSafetyWeights(sdata) ==
    [h \in {sdata[i].HubName : i \in DOMAIN sdata} |->
        LET i == SetMax({j \in DOMAIN sdata : sdata[j].HubName = h})
        IN  sdata[i].pred_prob_safe]

-----------------------------------------------------------------------------
(* analyze_network_structure *)

RECURSIVE NodeOrder(_)
\* the nodes of G in insertion order: G.add_edge(from, to) row by row
NodeOrder(rows) ==
    IF rows = <<>> THEN <<>>
    ELSE LET r == Last(rows)
         IN  AddOnce(AddOnce(NodeOrder(SubSeq(rows, 1, Len(rows) - 1)), r.from), r.to)

RECURSIVE Closure(_, _)
\* the nodes joined to a node of S by the raw edges
Closure(S, rows) ==
    LET T == S \cup {rows[i].to : i \in {j \in DOMAIN rows : rows[j].from \in S}}
              \cup {rows[i].from : i \in {j \in DOMAIN rows : rows[j].to \in S}}
    IN  IF T = S THEN S ELSE Closure(T, rows)

RECURSIVE ComponentsFrom(_, _, _)
\* nx.connected_components: one component per not yet seen node, in node order
ComponentsFrom(order, rows, seen) ==
    IF order = <<>> THEN <<>>
    ELSE IF Head(order) \in seen THEN ComponentsFrom(Tail(order), rows, seen)
    ELSE LET c == Closure({Head(order)}, rows)
         IN  <<c>> \o ComponentsFrom(Tail(order), rows, seen \cup c)

\* self.connected_components = list(nx.connected_components(G))
AnalyzeNetworkStructure(rows) == ComponentsFrom(NodeOrder(rows), rows, {})

-----------------------------------------------------------------------------
(* The graph: nx.Graph.  nodes is the node dict in insertion order, edge    *)
(* maps the unordered pair {u, v} to the attributes of the edge.            *)

\* self.graph = None
NoGraph == [created |-> FALSE, nodes |-> <<>>, edge |-> <<>>]

\* nx.Graph()
EmptyGraph == [created |-> TRUE, nodes |-> <<>>, edge |-> <<>>]

\* node in self.graph
InGraph(g, n) == n \in Range(g.nodes)

\* self.graph.has_edge(u, v)
HasEdge(g, u, v) == {u, v} \in DOMAIN g.edge

\* self.graph.neighbors(n)
Neighbors(g, n) == {m \in Range(g.nodes) : HasEdge(g, n, m)}

\* AddEdge that leaves an edge it meets as it is when the edge weighs less
\* than the new attributes
AddEdgeKeepLighter(g, u, v, attr) ==
    [created |-> g.created,
     nodes   |-> AddOnce(AddOnce(g.nodes, u), v),
     edge    |-> [e \in (DOMAIN g.edge) \cup {{u, v}} |->
                     IF e = {u, v} /\ (e \notin DOMAIN g.edge \/ g.edge[e].weight >= attr.weight)
                     THEN attr
                     ELSE g.edge[e]]]

\* Graph.add_edge(u, v, **attr): adds the nodes, then sets the attributes of
\* the one edge between u and v
AddEdge(g, u, v, attr) ==
    [created |-> g.created,
     nodes   |-> AddOnce(AddOnce(g.nodes, u), v),
     edge    |-> [e \in (DOMAIN g.edge) \cup {{u, v}} |->
                     IF e = {u, v} THEN attr ELSE g.edge[e]]]

-----------------------------------------------------------------------------
(* create_enhanced_graph *)

\* SafetyOf with the default left at 0: self.safety_weights.get(segment_id, 0)
SafetyOfDefaultZero(segment_id) ==
    IF segment_id \in DOMAIN safety_weights
    THEN safety_weights[segment_id]
    ELSE 0

\* self.safety_weights.get(segment_id, 0.5)
SafetyOf(segment_id) ==
    IF segment_id \in DOMAIN safety_weights
    THEN safety_weights[segment_id]
    ELSE DefaultSafety

\* Weight with the safety probability not inverted in the safety strategy
WeightNotInverted(cost_function, distance, safety_prob) ==
    CASE cost_function = "distance"   -> Unit * distance
      [] cost_function = "safety"     -> safety_prob * 1000
      [] cost_function = "combined"   -> Unit * distance + (10 - safety_prob) * 1000
      [] cost_function = "flood_risk" -> (10 - safety_prob) * 10000 + distance
      [] OTHER                        -> Unit * distance

\* Weight with the subtraction turned round: safety_prob - 1.0
WeightSignError(cost_function, distance, safety_prob) ==
    CASE cost_function = "distance"   -> Unit * distance
      [] cost_function = "safety"     -> (safety_prob - 10) * 1000
      [] cost_function = "combined"   -> Unit * distance + (safety_prob - 10) * 1000
      [] cost_function = "flood_risk" -> (safety_prob - 10) * 10000 + distance
      [] OTHER                        -> Unit * distance

\* Weight with an unrecognized strategy name treated as 'combined'
WeightOtherCombined(cost_function, distance, safety_prob) ==
    CASE cost_function = "distance"   -> Unit * distance
      [] cost_function = "safety"     -> (10 - safety_prob) * 1000
      [] cost_function = "flood_risk" -> (10 - safety_prob) * 10000 + distance
      [] OTHER                        -> Unit * distance + (10 - safety_prob) * 1000

\* the weight of an edge of given distance and safety probability (tenths),
\* in tenths of a cost unit
Weight(cost_function, distance, safety_prob) ==
    CASE cost_function = "distance"   -> Unit * distance
      [] cost_function = "safety"     -> (10 - safety_prob) * 1000
      [] cost_function = "combined"   -> Unit * distance + (10 - safety_prob) * 1000
      [] cost_function = "flood_risk" -> (10 - safety_prob) * 10000 + distance
      [] OTHER                        -> Unit * distance

\* ValidComponents with > for >=: a component of exactly
\* min_component_size nodes is left out
ValidComponentsStrict(comps, min_component_size) ==
    SelectSeq(comps, LAMBDA c : Cardinality(c) > min_component_size)

\* valid_components, in list order
ValidComponents(comps, min_component_size) ==
    SelectSeq(comps, LAMBDA c : Cardinality(c) >= min_component_size)

\* LargestValid that takes the last component of the largest size
LargestValidLast(valid) ==
    LET best == SetMax({Cardinality(valid[i]) : i \in DOMAIN valid})
        last == SetMax({i \in DOMAIN valid : Cardinality(valid[i]) = best})
    IN  valid[last]

\* max(valid_components, key=len): the first component of the largest size
LargestValid(valid) ==
    LET best == SetMax({Cardinality(valid[i]) : i \in DOMAIN valid})
        first == SetMin({i \in DOMAIN valid : Cardinality(valid[i]) = best})
    IN  valid[first]

\* AddRow without the test of lines 137-138: every record is added
AddRowUnfiltered(g, row, cost_function, largest_valid) ==
    AddEdge(g, row.from, row.to,
            [weight      |-> Weight(cost_function, row.cost,
                                    SafetyOf(row.road_segment_id)),
             segment_id  |-> row.road_segment_id,
             distance    |-> row.cost,
             safety_prob |-> SafetyOf(row.road_segment_id)])

\* one turn of the loop over the edge records
AddRow(g, row, cost_function, largest_valid) ==
    IF row.from \notin largest_valid \/ row.to \notin largest_valid
    THEN g
    ELSE AddEdge(g, row.from, row.to,
                 [weight      |-> Weight(cost_function, row.cost,
                                         SafetyOf(row.road_segment_id)),
                  segment_id  |-> row.road_segment_id,
                  distance    |-> row.cost,
                  safety_prob |-> SafetyOf(row.road_segment_id)])

RECURSIVE AddRows(_, _, _, _)
AddRows(g, rows, cost_function, largest_valid) ==
    IF rows = <<>> THEN g
    ELSE AddRows(AddRow(g, Head(rows), cost_function, largest_valid),
                 Tail(rows), cost_function, largest_valid)

RECURSIVE AddRowsInPlace(_, _, _, _)
\* the records added to a graph that may hold edges already: the weight of
\* a record is added to the weight of the edge it meets
AddRowsInPlace(g, rows, cost_function, largest_valid) ==
    IF rows = <<>> THEN g
    ELSE LET row == Head(rows)
             fresh == AddRow(g, row, cost_function, largest_valid)
             e == {row.from, row.to}
             next == IF e \in DOMAIN g.edge /\ e \in DOMAIN fresh.edge
                     THEN [fresh EXCEPT !.edge[e].weight = @ + g.edge[e].weight]
                     ELSE fresh
         IN  AddRowsInPlace(next, Tail(rows), cost_function, largest_valid)

\* CreateEnhancedGraph without the new nx.Graph() of line 115: the graph of
\* the call before is updated in place
CreateEnhancedGraphInPlace(cost_function) ==
    LET valid == ValidComponents(connected_components, MinComponentSize)
        g0 == IF graph.created THEN graph ELSE EmptyGraph
    IN  IF valid = <<>>
        THEN g0
        ELSE AddRowsInPlace(g0, graph_data, cost_function, LargestValid(valid))

\* the graph create_enhanced_graph(cost_function) leaves in self.graph
CreateEnhancedGraph(cost_function) ==
    LET valid == ValidComponents(connected_components, MinComponentSize)
    IN  IF valid = <<>>
        THEN EmptyGraph
        ELSE AddRows(EmptyGraph, graph_data, cost_function, LargestValid(valid))

-----------------------------------------------------------------------------
(* find_closest_nodes *)

RECURSIVE InsertByDist(_, _)
\* x put behind every entry that is not farther than it (a stable sort)
InsertByDist(sorted, x) ==
    IF sorted = <<>> THEN <<x>>
    ELSE IF Head(sorted)[2] <= x[2] THEN <<Head(sorted)>> \o InsertByDist(Tail(sorted), x)
    ELSE <<x>> \o sorted

RECURSIVE SortByDist(_)
\* distances.sort(key=lambda x: x[1])
SortByDist(s) ==
    IF s = <<>> THEN <<>>
    ELSE InsertByDist(SortByDist(SubSeq(s, 1, Len(s) - 1)), Last(s))

\* FindClosestNodes without the sort of line 192
FindClosestNodesUnsorted(g, target_coords, num_candidates) ==
    LET distances == [i \in DOMAIN g.nodes |-> <<g.nodes[i], Dist2(target_coords, g.nodes[i])>>]
    IN  SubSeq(distances, 1, IF num_candidates < Len(distances) THEN num_candidates
                             ELSE Len(distances))

\* FindClosestNodes with the slice one short: distances[:num_candidates - 1]
FindClosestNodesOneShort(g, target_coords, num_candidates) ==
    LET distances == [i \in DOMAIN g.nodes |-> <<g.nodes[i], Dist2(target_coords, g.nodes[i])>>]
        sorted == SortByDist(distances)
        n == IF num_candidates - 1 < Len(sorted) THEN num_candidates - 1 ELSE Len(sorted)
    IN  SubSeq(sorted, 1, IF n < 0 THEN 0 ELSE n)

\* find_closest_nodes(target_coords, num_candidates): the pairs
\* (node, distance), nearest first, at most num_candidates of them
FindClosestNodes(g, target_coords, num_candidates) ==
    LET distances == [i \in DOMAIN g.nodes |-> <<g.nodes[i], Dist2(target_coords, g.nodes[i])>>]
        sorted == SortByDist(distances)
    IN  SubSeq(sorted, 1, IF num_candidates < Len(sorted) THEN num_candidates ELSE Len(sorted))

-----------------------------------------------------------------------------
(* dijkstra_shortest_path *)

\* the detail of a path of fewer than two nodes: segments, total_distance
\* and avg_safety only
ShortDetails ==
    [segments |-> <<>>, total_distance |-> 0, avg_safety |-> <<0, 1>>,
     min_safety |-> 0, max_safety |-> 0, has_stats |-> FALSE, present |-> TRUE]

\* {}: the detail returned when no path is found
NoDetails ==
    [segments |-> <<>>, total_distance |-> 0, avg_safety |-> <<0, 1>>,
     min_safety |-> 0, max_safety |-> 0, has_stats |-> FALSE, present |-> FALSE]

\* the locals before the call
NoLocals ==
    [start |-> None, end |-> None, distances |-> <<>>, previous |-> <<>>,
     pq |-> {}, visited |-> {}, nodes_explored |-> 0, brk |-> FALSE,
     raised |-> "", row |-> 0,
     largest_valid |-> {}]

\* nothing returned yet
NoSolution ==
    [returned |-> FALSE, raised |-> "", path |-> <<>>, total_cost |-> 0,
     path_details |-> NoDetails, start |-> None, end |-> None]

\* find_closest_nodes(target_coords, ...) raises ValueError: at line 183 for
\* the target, at line 187 for a node of the graph
ClosestRaises(g, target_coords) ==
    ~Parsable(target_coords) \/ \E n \in Range(g.nodes) : ~Parsable(n)

\* stands for the ValueError of find_closest_nodes
Unparsed == <<-2, -2, 0>>

\* a point that is a node of the graph is kept; any other point is replaced
\* by find_closest_nodes(point, 1)[0][0]; None stands for the IndexError of
\* [0] on an empty list
SnapNode(g, point) ==
    IF InGraph(g, point) THEN point
    ELSE IF ClosestRaises(g, point) THEN Unparsed
    ELSE LET candidates == FindClosestNodes(g, point, 1)
         IN  IF candidates = <<>> THEN None ELSE candidates[1][1]

\* lines 204-225: snapping of both points, then distances, previous, pq, visited
DijkstraInit(g, l, start, end) ==
    LET s == SnapNode(g, start)
        e == IF s \in {None, Unparsed} THEN s ELSE SnapNode(g, end)
    IN  IF s = Unparsed \/ e = Unparsed
        THEN [l EXCEPT !.raised = "ValueError"]
        ELSE IF s = None \/ e = None
        THEN [l EXCEPT !.raised = "IndexError"]
        ELSE [l EXCEPT !.start = s, !.end = e,
                       !.distances = [n \in Range(g.nodes) \cup {s} |->
                                         IF n = s THEN 0 ELSE Infinity],
                       !.previous = [n \in Range(g.nodes) |-> None],
                       !.pq = {<<0, s>>},
                       !.visited = {},
                       !.nodes_explored = 0,
                       !.brk = FALSE]

\* (d1, n1) < (d2, n2) on tuples: by distance, then by the node string
EntryLess(a, b) == a[1] < b[1] \/ (a[1] = b[1] /\ StrLess(a[2], b[2]))

\* heapq.heappop(pq): the least entry
HeapMin(pq) == CHOOSE a \in pq : \A b \in pq \ {a} : EntryLess(a, b)

\* the loop of lines 227-251 goes on
DijkstraRunning(l) == l.raised = "" /\ ~l.brk /\ l.pq # {}

\* DijkstraStep that sets the distance of a neighbour only the first time
\* the neighbour is reached
DijkstraStepFirstReach(g, l) ==
    LET top == HeapMin(l.pq)
        current_dist == top[1]
        current_node == top[2]
        pq1 == l.pq \ {top}
        visited1 == l.visited \cup {current_node}
        nbrs == Neighbors(g, current_node) \ visited1
        new_dist(n) == current_dist + g.edge[{current_node, n}].weight
        upd == {n \in nbrs : l.distances[n] = Infinity}
    IN  IF current_node \in l.visited
        THEN [l EXCEPT !.pq = pq1]
        ELSE IF current_node = l.end
        THEN [l EXCEPT !.pq = pq1, !.visited = visited1, !.nodes_explored = @ + 1, !.brk = TRUE]
        ELSE [l EXCEPT !.pq = pq1 \cup {<<new_dist(n), n>> : n \in upd},
                       !.visited = visited1, !.nodes_explored = @ + 1,
                       !.distances = [n \in DOMAIN l.distances |->
                                         IF n \in upd THEN new_dist(n) ELSE l.distances[n]],
                       !.previous = [n \in DOMAIN l.previous |->
                                         IF n \in upd THEN current_node ELSE l.previous[n]]]

\* DijkstraStep without the tests of lines 230-231 and 238-239: a node popped
\* again is marked and expanded again, over all its neighbours
DijkstraStepRevisits(g, l) ==
    LET top == HeapMin(l.pq)
        current_dist == top[1]
        current_node == top[2]
        pq1 == l.pq \ {top}
        visited1 == l.visited \cup {current_node}
        nbrs == Neighbors(g, current_node)
        new_dist(n) == current_dist + g.edge[{current_node, n}].weight
        upd == {n \in nbrs : new_dist(n) < l.distances[n]}
    IN  IF current_node = l.end
        THEN [l EXCEPT !.pq = pq1, !.visited = visited1, !.nodes_explored = @ + 1,
                       !.brk = TRUE]
        ELSE [l EXCEPT !.pq = pq1 \cup {<<new_dist(n), n>> : n \in upd},
                       !.visited = visited1, !.nodes_explored = @ + 1,
                       !.distances = [n \in DOMAIN l.distances |->
                                         IF n \in upd THEN new_dist(n) ELSE l.distances[n]],
                       !.previous = [n \in DOMAIN l.previous |->
                                         IF n \in upd THEN current_node ELSE l.previous[n]]]

\* one turn of the loop of lines 227-251
DijkstraStep(g, l) ==
    LET top == HeapMin(l.pq)
        current_dist == top[1]
        current_node == top[2]
        pq1 == l.pq \ {top}
        visited1 == l.visited \cup {current_node}
        nbrs == Neighbors(g, current_node) \ visited1
        new_dist(n) == current_dist + g.edge[{current_node, n}].weight
        upd == {n \in nbrs : new_dist(n) < l.distances[n]}
    IN  IF current_node \in l.visited
        THEN [l EXCEPT !.pq = pq1]
        ELSE IF current_node = l.end
        THEN [l EXCEPT !.pq = pq1, !.visited = visited1, !.nodes_explored = @ + 1, !.brk = TRUE]
        ELSE IF ~InGraph(g, current_node)
        THEN [l EXCEPT !.pq = pq1, !.visited = visited1, !.nodes_explored = @ + 1, !.raised = "NetworkXError"]
        ELSE IF \E n \in nbrs : n \notin DOMAIN l.distances
        THEN [l EXCEPT !.pq = pq1, !.visited = visited1, !.nodes_explored = @ + 1, !.raised = "KeyError"]
        ELSE [l EXCEPT !.pq = pq1 \cup {<<new_dist(n), n>> : n \in upd},
                       !.visited = visited1, !.nodes_explored = @ + 1,
                       !.distances = [n \in DOMAIN l.distances |->
                                         IF n \in upd THEN new_dist(n) ELSE l.distances[n]],
                       !.previous = [n \in DOMAIN l.previous |->
                                         IF n \in upd THEN current_node ELSE l.previous[n]]]

RECURSIVE DijkstraLoop(_, _)
\* the loop run to its end
DijkstraLoop(g, l) ==
    IF DijkstraRunning(l) THEN DijkstraLoop(g, DijkstraStep(g, l)) ELSE l

RECURSIVE WalkBackWithoutStart(_, _)
\* WalkBack that stops at the node without a predecessor instead of after it
WalkBackWithoutStart(previous, current) ==
    IF current = None \/ previous[current] = None THEN <<>>
    ELSE WalkBackWithoutStart(previous, previous[current]) \o <<current>>

RECURSIVE WalkBack(_, _)
\* lines 259-264: the predecessor links from current back to None, reversed
WalkBack(previous, current) ==
    IF current = None THEN <<>>
    ELSE WalkBack(previous, previous[current]) \o <<current>>

\* ResolveSegmentId without the lookup of lines 290-291
ResolveSegmentIdUnmapped(segment_id) == segment_id

\* the segment id as reported: mapped through self.segment_id_map if it has it
ResolveSegmentId(segment_id) ==
    IF segment_id \in DOMAIN segment_id_map
    THEN segment_id_map[segment_id]
    ELSE segment_id

\* GetPathDetails with the mean taken over the nodes of the path instead of
\* its edges, and the least probability taken over all but the last edge
GetPathDetailsOffByOne(g, path) ==
    IF Len(path) < 2 THEN ShortDetails
    ELSE LET idx == SelectSeq([i \in 1..(Len(path) - 1) |-> i],
                              LAMBDA i : HasEdge(g, path[i], path[i + 1]))
             data(i) == g.edge[{path[i], path[i + 1]}]
             segments == [k \in DOMAIN idx |->
                             [segment_id  |-> ResolveSegmentId(data(idx[k]).segment_id),
                              from        |-> path[idx[k]],
                              to          |-> path[idx[k] + 1],
                              distance    |-> data(idx[k]).distance,
                              safety_prob |-> data(idx[k]).safety_prob]]
             safety_probs == [k \in DOMAIN idx |-> data(idx[k]).safety_prob]
         IN  [segments       |-> segments,
              total_distance |-> SumSeq([k \in DOMAIN idx |-> data(idx[k]).distance]),
              avg_safety     |-> IF safety_probs = <<>> THEN <<0, 1>>
                                 ELSE <<SumSeq(safety_probs), Len(path)>>,
              min_safety     |-> IF safety_probs = <<>> THEN 0
                                 ELSE SetMin({safety_probs[1]} \cup
                                             {safety_probs[k] : k \in 1..(Len(safety_probs) - 1)}),
              max_safety     |-> IF safety_probs = <<>> THEN 0 ELSE SetMax(Range(safety_probs)),
              has_stats      |-> TRUE,
              present        |-> TRUE]

\* _get_path_details(path)
GetPathDetails(g, path) ==
    IF Len(path) < 2 THEN ShortDetails
    ELSE LET idx == SelectSeq([i \in 1..(Len(path) - 1) |-> i],
                              LAMBDA i : HasEdge(g, path[i], path[i + 1]))
             data(i) == g.edge[{path[i], path[i + 1]}]
             segments == [k \in DOMAIN idx |->
                             [segment_id  |-> ResolveSegmentId(data(idx[k]).segment_id),
                              from        |-> path[idx[k]],
                              to          |-> path[idx[k] + 1],
                              distance    |-> data(idx[k]).distance,
                              safety_prob |-> data(idx[k]).safety_prob]]
             safety_probs == [k \in DOMAIN idx |-> data(idx[k]).safety_prob]
         IN  [segments       |-> segments,
              total_distance |-> SumSeq([k \in DOMAIN idx |-> data(idx[k]).distance]),
              avg_safety     |-> IF safety_probs = <<>> THEN <<0, 1>>
                                 ELSE <<SumSeq(safety_probs), Len(safety_probs)>>,
              min_safety     |-> IF safety_probs = <<>> THEN 0 ELSE SetMin(Range(safety_probs)),
              max_safety     |-> IF safety_probs = <<>> THEN 0 ELSE SetMax(Range(safety_probs)),
              has_stats      |-> TRUE,
              present        |-> TRUE]

\* DijkstraFinish without the test of lines 255-256: the path is always
\* walked back from end
DijkstraFinishNoTest(g, l) ==
    IF l.raised # ""
    THEN [NoSolution EXCEPT !.returned = TRUE, !.raised = l.raised]
    ELSE IF l.end \notin DOMAIN l.distances
    THEN [NoSolution EXCEPT !.returned = TRUE, !.raised = "KeyError"]
    ELSE LET path == WalkBack(l.previous, l.end)
         IN  [returned     |-> TRUE,
              raised       |-> "",
              path         |-> path,
              total_cost   |-> l.distances[l.end],
              path_details |-> GetPathDetails(g, path),
              start        |-> l.start,
              end          |-> l.end]

\* lines 255-271: what dijkstra_shortest_path returns once the loop is over
DijkstraFinish(g, l) ==
    IF l.raised # ""
    THEN [NoSolution EXCEPT !.returned = TRUE, !.raised = l.raised]
    ELSE IF l.end \notin DOMAIN l.distances
    THEN [NoSolution EXCEPT !.returned = TRUE, !.raised = "KeyError"]
    ELSE IF l.distances[l.end] = Infinity
    THEN [NoSolution EXCEPT !.returned = TRUE, !.path = <<>>, !.total_cost = Infinity,
                            !.start = l.start, !.end = l.end]
    ELSE LET path == WalkBack(l.previous, l.end)
         IN  [returned     |-> TRUE,
              raised       |-> "",
              path         |-> path,
              total_cost   |-> l.distances[l.end],
              path_details |-> GetPathDetails(g, path),
              start        |-> l.start,
              end          |-> l.end]

\* dijkstra_shortest_path(start, end) on the graph g, run from its first line
\* to its return
DijkstraShortestPath(g, start, end) ==
    IF ~g.created
    THEN [NoSolution EXCEPT !.returned = TRUE, !.raised = "ValueError"]
    ELSE LET l0 == DijkstraInit(g, NoLocals, start, end)
         IN  DijkstraFinish(g, IF l0.raised # "" THEN l0 ELSE DijkstraLoop(g, l0))

-----------------------------------------------------------------------------
(* find_optimal_route *)

\* nothing returned yet
NoResult ==
    [returned |-> FALSE, raised |-> "", success |-> FALSE, path |-> <<>>,
     total_cost |-> 0, path_details |-> NoDetails, cost_function |-> ""]

\* lines 326-350: the result built from what dijkstra_shortest_path returned
RouteResult(s, cost_function) ==
    IF s.raised # ""
    THEN [NoResult EXCEPT !.returned = TRUE, !.raised = s.raised]
    ELSE IF s.path = <<>>
    THEN [NoResult EXCEPT !.returned = TRUE, !.success = FALSE, !.path = <<>>,
                          !.total_cost = Infinity]
    ELSE IF ~s.path_details.has_stats
    THEN [NoResult EXCEPT !.returned = TRUE, !.raised = "KeyError"]
    ELSE [returned      |-> TRUE,
          raised        |-> "",
          success       |-> TRUE,
          path          |-> s.path,
          total_cost    |-> s.total_cost,
          path_details  |-> s.path_details,
          cost_function |-> cost_function]

-----------------------------------------------------------------------------
(* compare_routing_strategies *)

\* strategies, line 358
Strategies == <<"distance", "safety", "combined", "flood_risk">>

\* CompareTurn without the try/except of lines 363-374: an exception of
\* find_optimal_route leaves the loop and the function
CompareTurnUncaught(c, strategy, route) ==
    IF route.raised # ""
    THEN [c EXCEPT !.tried = Append(@, strategy), !.raised = route.raised]
    ELSE IF route.success
    THEN [c EXCEPT !.tried = Append(@, strategy),
                   !.results = [s \in (DOMAIN c.results) \cup {strategy} |->
                                   IF s = strategy THEN route ELSE c.results[s]]]
    ELSE [c EXCEPT !.tried = Append(@, strategy)]

\* lines 362-374: one turn of the loop over the strategies, route being what
\* find_optimal_route(start, end, strategy) returned or raised
CompareTurn(c, strategy, route) ==
    IF route.raised # ""
    THEN [c EXCEPT !.tried = Append(@, strategy)]
    ELSE IF route.success
    THEN [c EXCEPT !.tried = Append(@, strategy),
                   !.results = [s \in (DOMAIN c.results) \cup {strategy} |->
                                   IF s = strategy THEN route ELSE c.results[s]]]
    ELSE [c EXCEPT !.tried = Append(@, strategy)]

\* the loop of line 361 goes on
CompareRunning(c) == c.raised = "" /\ Len(c.tried) < Len(Strategies)

-----------------------------------------------------------------------------
(* sheltr_backend: the choice of the nearest safe point and the response    *)

\* no safe point chosen: ex, ey = None, None
NoPoint == <<-1, -1>>

RECURSIVE NearestFromLast(_, _, _, _, _)
\* NearestFrom with <= for <: a later point at the same distance is taken
NearestFromLast(points, sx, sy, dmin, e) ==
    IF points = <<>> THEN e
    ELSE LET p == Head(points)
             d == (p[1] - sx) * (p[1] - sx) + (p[2] - sy) * (p[2] - sy)
         IN  IF d <= dmin THEN NearestFromLast(Tail(points), sx, sy, d, p)
             ELSE NearestFromLast(Tail(points), sx, sy, dmin, e)

RECURSIVE NearestFrom(_, _, _, _, _)
\* the loop of lines 326-330 (and 483-487) over the points left, with the
\* least squared distance dmin found so far at the point e
NearestFrom(points, sx, sy, dmin, e) ==
    IF points = <<>> THEN e
    ELSE LET p == Head(points)
             d == (p[1] - sx) * (p[1] - sx) + (p[2] - sy) * (p[2] - sy)
         IN  IF d < dmin THEN NearestFrom(Tail(points), sx, sy, d, p)
             ELSE NearestFrom(Tail(points), sx, sy, dmin, e)

\* lines 322-330: the safe point nearest to start_coords
NearestSafePoint(points, start_coords) ==
    LET s == ParseKey(start_coords)
    IN  NearestFrom(points, s[1], s[2], Infinity, NoPoint)

\* f"{ex},{ey}" of two floats
PointKey(p) == MkKey(p[1], p[2], 1)

\* lines 341-342 and 450-451: the response to a request the router was
\* called for, by what find_optimal_route returned or raised
RouteResponse(route) ==
    IF route.raised # "" THEN [kind |-> "error", status |-> 500]
    ELSE IF ~route.success THEN [kind |-> "error", status |-> 400]
    ELSE [kind |-> "route", status |-> 200]

-----------------------------------------------------------------------------
(* The inputs of the model *)

A == MkKey(0, 0, 0)
B == MkKey(0, 10, 0)
C == MkKey(10, 10, 0)
D == MkKey(10, 0, 0)
E == MkKey(30, 0, 0)
F == MkKey(30, 10, 0)
G == MkKey(40, 10, 0)

\* query points that are not written as any node is: the point of A written
\* as floats, a point nearest to D, and the centre of the square
AFloat == MkKey(0, 0, 1)
NearD == MkKey(9, 2, 0)
Centre == MkKey(5, 5, 0)

EdgeRecord(f, t, c, id) == [from |-> f, to |-> t, cost |-> c, road_segment_id |-> id]

\* the edge records an edge source is drawn from, in file order
Catalog ==
    << EdgeRecord(A, B, 10, 1),
       EdgeRecord(A, D, 10, 2),
       EdgeRecord(D, C, 10, 3),
       EdgeRecord(B, C, 10, 4),
       EdgeRecord(A, C, 30, 5),
       EdgeRecord(B, A, 40, 6),
       EdgeRecord(E, F, 10, 7),
       EdgeRecord(F, G, 0, 8),
       EdgeRecord(A, A, 0, 9) >>

\* the square of the concrete scenario: A-B, A-D, D-C, B-C, each of distance 10
SquareRows == SubSeq(Catalog, 1, 4)

RECURSIVE PickRows(_, _)
\* the records of the catalog whose index is in S, in catalog order
PickRows(S, i) ==
    IF i > Len(Catalog) THEN <<>>
    ELSE (IF i \in S THEN <<Catalog[i]>> ELSE <<>>) \o PickRows(S, i + 1)

\* the edge sources of the model: at most MaxRows records of the catalog
EdgeSources ==
    {PickRows(S, 1) : S \in {T \in SUBSET (1..Len(Catalog)) : Cardinality(T) <= MaxRows}}

SafetyRow(h, p) == [HubName |-> h, pred_prob_safe |-> p]

\* the safety data of the model: the square's (A-B 0.9, A-D 0.2, D-C 0.9,
\* B-C 0.9) read beside segments_graph.csv, and a table with the extreme
\* probabilities, unknown segments and a repeated HubName read beside
\* segments_graph_full.csv
Deployments ==
    { [safety_data |-> <<SafetyRow(1, 9), SafetyRow(2, 2), SafetyRow(3, 9), SafetyRow(4, 9)>>,
       full |-> FALSE],
      [safety_data |-> <<SafetyRow(2, 10), SafetyRow(3, 0), SafetyRow(5, 7), SafetyRow(7, 3),
                         SafetyRow(5, 4)>>,
       full |-> TRUE] }

Starts == {A, AFloat, Centre, E}

Ends == {C, A, NearD, F}

CostFunctions == {"distance", "safety", "combined", "flood_risk", "fastest"}

Threads == {1, 2}

NoRequest == [start |-> None, end |-> None, cost_function |-> ""]

NoPrevious == [req |-> NoRequest, result |-> NoResult]

\* no request handled by the serving layer
NoResponse == [endpoint |-> "", start |-> None, end |-> None, kind |-> "none",
               status |-> 0]

\* find_closest_nodes not called yet
NoClosest == [called |-> FALSE, target_coords |-> None, num_candidates |-> 0,
              out |-> <<>>, raised |-> ""]

\* no comparison under way
NoComparison ==
    [start |-> None, end |-> None, tried |-> <<>>, results |-> <<>>, raised |-> ""]

-----------------------------------------------------------------------------
(* The router after ComprehensiveFloodRiskRouter(...), load_data() and      *)
(* analyze_network_structure(), as initialize_ml_models leaves it           *)

InitRouter(rows, dep) ==
    /\ graph_data = rows
    /\ safety_data = dep.safety_data
    /\ graph_file_full = dep.full
    /\ safety_weights = LoadSafetyWeights(dep.safety_data)
    /\ segment_id_map = LoadSegmentIdMap(dep.safety_data, dep.full)
    /\ connected_components = AnalyzeNetworkStructure(rows)
    /\ graph = NoGraph

\* no call made yet
InitCalls ==
    /\ pc = [t \in Threads |-> "idle"]
    /\ req = [t \in Threads |-> NoRequest]
    /\ loc = [t \in Threads |-> NoLocals]
    /\ sol = [t \in Threads |-> NoSolution]
    /\ result = [t \in Threads |-> NoResult]
    /\ prev = NoPrevious
    /\ cmp = NoComparison
    /\ closest = NoClosest
    /\ response = NoResponse

\* no safe points file found: safe_points_utm = None
InitThreads ==
    /\ InitCalls
    /\ safe_points_utm = <<>>

Init ==
    /\ \E rows \in EdgeSources, dep \in Deployments : InitRouter(rows, dep)
    /\ InitThreads

-----------------------------------------------------------------------------
(* One request at a time: find_optimal_route from its call to its return    *)

\* find_optimal_route(start, end, cost_function), lines 312-350
Route(t, start, end, cost_function) ==
    /\ graph' = CreateEnhancedGraph(cost_function)
    /\ sol' = [sol EXCEPT ![t] = DijkstraShortestPath(graph', start, end)]
    /\ result' = [result EXCEPT ![t] = RouteResult(sol'[t], cost_function)]
    /\ req' = [req EXCEPT ![t] = [start |-> start, end |-> end,
                                  cost_function |-> cost_function]]
    /\ pc' = [pc EXCEPT ![t] = "done"]
    /\ UNCHANGED <<routerData, loc>>

\* a request arrives and is served
FindOptimalRoute(start, end, cost_function) ==
    /\ pc[1] = "idle"
    /\ Route(1, start, end, cost_function)
    /\ UNCHANGED <<prev, cmp, closest, serving>>

\* the caller has taken the result
Return ==
    /\ pc[1] = "done"
    /\ pc' = [pc EXCEPT ![1] = "idle"]
    /\ req' = [req EXCEPT ![1] = NoRequest]
    /\ sol' = [sol EXCEPT ![1] = NoSolution]
    /\ result' = [result EXCEPT ![1] = NoResult]
    /\ UNCHANGED <<routerData, graph, loc, prev, cmp, closest, serving>>

Next ==
    \/ \E start \in Starts, end \in Ends, cost_function \in CostFunctions :
           FindOptimalRoute(start, end, cost_function)
    \/ Return

Spec == Init /\ [][Next]_vars

-----------------------------------------------------------------------------
(* Repeated requests: each call follows the one before, whose arguments    *)
(* and result the caller still holds                                       *)

RepeatSources == {SquareRows, PickRows({1, 4, 5}, 1), PickRows({2, 3, 5, 7}, 1)}

RepeatStarts == {A, Centre}

RepeatEnds == {C, NearD}

InitRepeat ==
    /\ \E rows \in RepeatSources, dep \in Deployments : InitRouter(rows, dep)
    /\ InitThreads

FindOptimalRouteAgain(start, end, cost_function) ==
    /\ Route(1, start, end, cost_function)
    /\ prev' = [req |-> req[1], result |-> result[1]]
    /\ UNCHANGED <<cmp, closest, serving>>

NextRepeat ==
    \E start \in RepeatStarts, end \in RepeatEnds, cost_function \in CostFunctions :
        FindOptimalRouteAgain(start, end, cost_function)

SpecRepeat == InitRepeat /\ [][NextRepeat]_vars

-----------------------------------------------------------------------------
(* The serving layer: /api/calculate-route and /api/nearest-safe-route,    *)
(* one request at a time                                                   *)

\* start points as latlng_to_utm_xy writes them
ServingStarts == {AFloat, MkKey(5, 5, 1)}

\* an explicit end, as latlng_to_utm_xy writes it
ServingEnds == {MkKey(10, 10, 1)}

\* the safe point lists of the model: none, one point, two points at the
\* same distance from both starts, and four points with a repeated one
SafePointLists ==
    { <<>>,
      << <<10, 10>> >>,
      << <<10, 0>>, <<0, 10>> >>,
      << <<40, 10>>, <<10, 10>>, <<0, 10>>, <<10, 10>> >> }

InitServing ==
    /\ \E rows \in RepeatSources, dep \in Deployments : InitRouter(rows, dep)
    /\ InitCalls
    /\ safe_points_utm \in SafePointLists

\* the request is answered with an error before line 339 (491) is reached
Refuse(endpoint, start, status) ==
    /\ response' = [endpoint |-> endpoint, start |-> start, end |-> None,
                    kind |-> "error", status |-> status]
    /\ UNCHANGED <<routerData, graph, pc, req, loc, sol, result>>

\* line 339 (491): the router is called, and answered by what it returns
Serve(endpoint, start, end, end_coords, cost_function) ==
    /\ Route(1, start, end_coords, cost_function)
    /\ response' = [endpoint |-> endpoint, start |-> start, end |-> end,
                    kind |-> RouteResponse(result'[1]).kind,
                    status |-> RouteResponse(result'[1]).status]

\* calculate_route, lines 285-342 and 450-451; end = None: the request has
\* no end, or one without latitude and longitude
CalculateRoute(start, end, cost_function) ==
    /\ pc[1] = "idle"
    /\ response = NoResponse
    /\ IF end # None
       THEN Serve("calculate-route", start, end, end, cost_function)
       ELSE IF safe_points_utm # <<>>
       THEN LET e == NearestSafePoint(safe_points_utm, start)
            IN  IF e # NoPoint
                THEN Serve("calculate-route", start, end, PointKey(e), cost_function)
                ELSE Refuse("calculate-route", start, 500)
       ELSE Refuse("calculate-route", start, 400)
    /\ UNCHANGED <<prev, cmp, closest, safe_points_utm>>

\* nearest_safe_route, lines 454-493
NearestSafeRoute(start, cost_function) ==
    /\ pc[1] = "idle"
    /\ response = NoResponse
    /\ IF safe_points_utm = <<>>
       THEN Refuse("nearest-safe-route", start, 500)
       ELSE Serve("nearest-safe-route", start, None,
                  PointKey(NearestSafePoint(safe_points_utm, start)), cost_function)
    /\ UNCHANGED <<prev, cmp, closest, safe_points_utm>>

\* the response is sent
Reply ==
    /\ response # NoResponse
    /\ response' = NoResponse
    /\ pc' = [pc EXCEPT ![1] = "idle"]
    /\ req' = [req EXCEPT ![1] = NoRequest]
    /\ sol' = [sol EXCEPT ![1] = NoSolution]
    /\ result' = [result EXCEPT ![1] = NoResult]
    /\ UNCHANGED <<routerData, graph, loc, prev, cmp, closest, safe_points_utm>>

NextServing ==
    \/ \E start \in ServingStarts, end \in ServingEnds \cup {None},
          cost_function \in CostFunctions :
           CalculateRoute(start, end, cost_function)
    \/ \E start \in ServingStarts, cost_function \in CostFunctions :
           NearestSafeRoute(start, cost_function)
    \/ Reply

SpecServing == InitServing /\ [][NextServing]_vars

-----------------------------------------------------------------------------
(* Edge sources with a record whose node key is not of the form "x,y"      *)

\* the key "20"
Bad == MkKey(20, 0, 2)

MalformedSources ==
    { SquareRows \o <<EdgeRecord(C, Bad, 10, 10)>>,
      <<EdgeRecord(A, B, 10, 1), EdgeRecord(Bad, B, 10, 10)>>,
      <<EdgeRecord(A, D, 10, 2), EdgeRecord(D, C, 10, 3), EdgeRecord(E, Bad, 10, 10)>> }

MalformedEnds == {C, NearD, Bad}

InitMalformed ==
    /\ \E rows \in MalformedSources, dep \in Deployments : InitRouter(rows, dep)
    /\ InitThreads

NextMalformed ==
    \/ \E start \in Starts, end \in MalformedEnds, cost_function \in CostFunctions :
           FindOptimalRoute(start, end, cost_function)
    \/ Return

SpecMalformed == InitMalformed /\ [][NextMalformed]_vars

-----------------------------------------------------------------------------
(* find_closest_nodes called on its own, on the graph a call of            *)
(* create_enhanced_graph left in the router                                *)

\* largest num_candidates asked for
MaxCandidates == 4

\* the default num_candidates of find_closest_nodes
DefaultCandidates == 10

\* the points asked about: nodes, points off the nodes, a point at the same
\* distance from all four corners of the square
Targets == Starts \cup Ends

\* create_enhanced_graph(cost_function) called on its own (as at line 389)
CreateGraph(cost_function) ==
    /\ ~graph.created
    /\ graph' = CreateEnhancedGraph(cost_function)
    /\ UNCHANGED <<routerData, pc, req, loc, sol, result, prev, cmp, closest, serving>>

\* find_closest_nodes(target_coords, num_candidates), lines 181-193
FindClosest(target_coords, num_candidates) ==
    /\ graph.created
    /\ closest' = IF ClosestRaises(graph, target_coords)
                  THEN [NoClosest EXCEPT !.called = TRUE, !.raised = "ValueError",
                                         !.target_coords = target_coords,
                                         !.num_candidates = num_candidates]
                  ELSE [called         |-> TRUE,
                        target_coords  |-> target_coords,
                        num_candidates |-> num_candidates,
                        out            |-> FindClosestNodes(graph, target_coords,
                                                            num_candidates),
                        raised         |-> ""]
    /\ UNCHANGED <<routerData, graph, pc, req, loc, sol, result, prev, cmp, serving>>

NextClosest ==
    \/ \E cost_function \in {"combined", "distance"} : CreateGraph(cost_function)
    \/ \E target_coords \in Targets,
          num_candidates \in (0..MaxCandidates) \cup {DefaultCandidates} :
           FindClosest(target_coords, num_candidates)

SpecClosest == Init /\ [][NextClosest]_vars

-----------------------------------------------------------------------------
(* The strategies compared for one pair of points: compare_routing_strategies *)
(* from its call to its return, one find_optimal_route call per step         *)

\* compare_routing_strategies(start, end) is called: lines 358-359
CompareRoutingStrategies(start, end) ==
    /\ pc[1] = "idle"
    /\ cmp' = [NoComparison EXCEPT !.start = start, !.end = end]
    /\ pc' = [pc EXCEPT ![1] = "compare"]
    /\ UNCHANGED <<routerData, graph, req, loc, sol, result, prev, closest, serving>>

\* lines 361-374: the next strategy is routed and its result is kept or not
CompareStep ==
    /\ pc[1] = "compare"
    /\ CompareRunning(cmp)
    /\ LET strategy == Strategies[Len(cmp.tried) + 1]
       IN  /\ graph' = CreateEnhancedGraph(strategy)
           /\ sol' = [sol EXCEPT ![1] = DijkstraShortestPath(graph', cmp.start, cmp.end)]
           /\ result' = [result EXCEPT ![1] = RouteResult(sol'[1], strategy)]
           /\ req' = [req EXCEPT ![1] = [start |-> cmp.start, end |-> cmp.end,
                                         cost_function |-> strategy]]
           /\ cmp' = CompareTurn(cmp, strategy, result'[1])
    /\ UNCHANGED <<routerData, pc, loc, prev, closest, serving>>

\* line 376: return results
CompareReturn ==
    /\ pc[1] = "compare"
    /\ ~CompareRunning(cmp)
    /\ pc' = [pc EXCEPT ![1] = "compared"]
    /\ UNCHANGED <<routerData, graph, req, loc, sol, result, prev, cmp, closest, serving>>

NextCompare ==
    \/ \E start \in Starts, end \in Ends : CompareRoutingStrategies(start, end)
    \/ CompareStep
    \/ CompareReturn

SpecCompare == Init /\ [][NextCompare]_vars

-----------------------------------------------------------------------------
(* Requests served in parallel.  The route endpoint calls                  *)
(* router.find_optimal_route on the one module-level router, and the       *)
(* server started by app.run handles each request in a thread of its own;  *)
(* a thread may be switched out between any two statements.  The steps are *)
(* line 115, one turn of the loop of lines 130-166, lines 204-225, one     *)
(* turn of the loop of lines 227-251, and lines 255-350.  Every step reads *)
(* self.graph anew.                                                        *)

ConcurrentStrategies == {"distance", "safety"}

InitConcurrent ==
    /\ InitRouter(SquareRows, CHOOSE dep \in Deployments : ~dep.full)
    /\ InitThreads

\* sheltr_backend.py line 339: a request thread enters find_optimal_route
Enter(t, start, end, cost_function) ==
    /\ pc[t] = "idle"
    /\ req' = [req EXCEPT ![t] = [start |-> start, end |-> end,
                                  cost_function |-> cost_function]]
    /\ pc' = [pc EXCEPT ![t] = "create"]
    /\ UNCHANGED <<routerData, graph, loc, sol, result, prev, cmp, closest, serving>>

\* lines 115-126: self.graph = nx.Graph(), then the choice of the component
NewGraph(t) ==
    /\ pc[t] = "create"
    /\ graph' = EmptyGraph
    /\ LET valid == ValidComponents(connected_components, MinComponentSize)
       IN  IF valid = <<>>
           THEN /\ pc' = [pc EXCEPT ![t] = "solve"]
                /\ loc' = [loc EXCEPT ![t] = NoLocals]
           ELSE /\ pc' = [pc EXCEPT ![t] = "rows"]
                /\ loc' = [loc EXCEPT ![t] = [NoLocals EXCEPT !.row = 1,
                                                 !.largest_valid = LargestValid(valid)]]
    /\ UNCHANGED <<routerData, req, sol, result, prev, cmp, closest, serving>>

\* lines 130-166: one edge record, added to the graph self.graph now names
AddRowStep(t) ==
    /\ pc[t] = "rows"
    /\ IF loc[t].row > Len(graph_data)
       THEN /\ pc' = [pc EXCEPT ![t] = "solve"]
            /\ UNCHANGED <<graph, loc>>
       ELSE /\ graph' = AddRow(graph, graph_data[loc[t].row], req[t].cost_function,
                               loc[t].largest_valid)
            /\ loc' = [loc EXCEPT ![t].row = @ + 1]
            /\ pc' = pc
    /\ UNCHANGED <<routerData, req, sol, result, prev, cmp, closest, serving>>

\* lines 204-225: snapping and the initial distances
SolveInit(t) ==
    /\ pc[t] = "solve"
    /\ loc' = [loc EXCEPT ![t] = DijkstraInit(graph, loc[t], req[t].start, req[t].end)]
    /\ pc' = [pc EXCEPT ![t] = "loop"]
    /\ UNCHANGED <<routerData, graph, req, sol, result, prev, cmp, closest, serving>>

\* lines 227-251: one turn of the relaxation loop
SolveStep(t) ==
    /\ pc[t] = "loop"
    /\ DijkstraRunning(loc[t])
    /\ loc' = [loc EXCEPT ![t] = DijkstraStep(graph, loc[t])]
    /\ UNCHANGED <<routerData, graph, pc, req, sol, result, prev, cmp, closest, serving>>

\* SolveFinish whose _get_path_details writes the resolved segment id back
\* into the attributes of each edge of the path
SolveFinishResolvesInPlace(t) ==
    /\ pc[t] = "loop"
    /\ ~DijkstraRunning(loc[t])
    /\ sol' = [sol EXCEPT ![t] = DijkstraFinish(graph, loc[t])]
    /\ result' = [result EXCEPT ![t] = RouteResult(sol'[t], req[t].cost_function)]
    /\ graph' = LET path == sol'[t].path
                    onPath == {{path[i], path[i + 1]} : i \in 1..(Len(path) - 1)}
                IN  [graph EXCEPT !.edge =
                        [e \in DOMAIN graph.edge |->
                            IF e \in onPath
                            THEN [graph.edge[e] EXCEPT
                                     !.segment_id = ResolveSegmentId(@)]
                            ELSE graph.edge[e]]]
    /\ pc' = [pc EXCEPT ![t] = "done"]
    /\ UNCHANGED <<routerData, req, loc, prev, cmp, closest, serving>>

\* lines 255-271 and 326-350: the path, its detail and the result
SolveFinish(t) ==
    /\ pc[t] = "loop"
    /\ ~DijkstraRunning(loc[t])
    /\ sol' = [sol EXCEPT ![t] = DijkstraFinish(graph, loc[t])]
    /\ result' = [result EXCEPT ![t] = RouteResult(sol'[t], req[t].cost_function)]
    /\ pc' = [pc EXCEPT ![t] = "done"]
    /\ UNCHANGED <<routerData, graph, req, loc, prev, cmp, closest, serving>>

\* sheltr_backend.py lines 341-342: the response is sent, the thread is free
Respond(t) ==
    /\ pc[t] = "done"
    /\ pc' = [pc EXCEPT ![t] = "idle"]
    /\ req' = [req EXCEPT ![t] = NoRequest]
    /\ loc' = [loc EXCEPT ![t] = NoLocals]
    /\ sol' = [sol EXCEPT ![t] = NoSolution]
    /\ result' = [result EXCEPT ![t] = NoResult]
    /\ UNCHANGED <<routerData, graph, prev, cmp, closest, serving>>

\* lines 324-350 run by a thread without a switch to another thread: the
\* whole of dijkstra_shortest_path on the graph self.graph names now, and
\* the result
SolveWhole(t) ==
    /\ pc[t] = "solve"
    /\ sol' = [sol EXCEPT ![t] = DijkstraShortestPath(graph, req[t].start, req[t].end)]
    /\ result' = [result EXCEPT ![t] = RouteResult(sol'[t], req[t].cost_function)]
    /\ pc' = [pc EXCEPT ![t] = "done"]
    /\ UNCHANGED <<routerData, graph, req, loc, prev, cmp, closest, serving>>

\* edge records whose first two lie apart until the third joins them
JoinedLate == PickRows({1, 3, 4, 5}, 1)

InitInterrupted ==
    /\ \E rows \in {SquareRows, JoinedLate}, dep \in Deployments : InitRouter(rows, dep)
    /\ InitThreads

\* requests in parallel, each search run in one piece between two steps of
\* the other thread's create_enhanced_graph
NextInterrupted ==
    \E t \in Threads :
        \/ \E end \in {C, NearD}, cost_function \in ConcurrentStrategies :
               Enter(t, A, end, cost_function)
        \/ NewGraph(t)
        \/ AddRowStep(t)
        \/ SolveWhole(t)
        \/ Respond(t)

SpecInterrupted == InitInterrupted /\ [][NextInterrupted]_vars

\* a triangle with a long side A-C and a tail from C to G: C is pushed twice
\* before G is reached
Tailed ==
    << EdgeRecord(A, D, 10, 2), EdgeRecord(D, C, 10, 3), EdgeRecord(A, C, 30, 5),
       EdgeRecord(C, G, 20, 8) >>

\* edge sources for the search watched turn by turn: the square, the tailed
\* triangle, two components, one with an edge of distance 0 and a
\* self-loop, and one with a pair of nodes joined twice
SearchSources ==
    { SquareRows, Tailed, PickRows({2, 3, 5, 7}, 1),
      PickRows({7, 8, 9}, 1), PickRows({1, 6, 9}, 1) }

InitSearch ==
    /\ \E rows \in SearchSources, dep \in Deployments : InitRouter(rows, dep)
    /\ InitThreads

\* line 321: create_enhanced_graph run in one piece by the one thread
Build(t) ==
    /\ pc[t] = "create"
    /\ graph' = CreateEnhancedGraph(req[t].cost_function)
    /\ pc' = [pc EXCEPT ![t] = "solve"]
    /\ UNCHANGED <<routerData, req, loc, sol, result, prev, cmp, closest, serving>>

\* one request at a time, the search of dijkstra_shortest_path turn by turn
NextSearch ==
    \/ \E start \in Starts, end \in Ends, cost_function \in CostFunctions :
           Enter(1, start, end, cost_function)
    \/ Build(1)
    \/ SolveInit(1)
    \/ SolveStep(1)
    \/ SolveFinish(1)
    \/ Respond(1)

\* a search in its loop runs on: the interpreter executes the next turn, and
\* the statements after the loop
SpecSearch ==
    /\ InitSearch
    /\ [][NextSearch]_vars
    /\ WF_vars(SolveStep(1))
    /\ WF_vars(SolveFinish(1))

NextConcurrent ==
    \E t \in Threads :
        \/ \E cost_function \in ConcurrentStrategies : Enter(t, A, C, cost_function)
        \/ NewGraph(t)
        \/ AddRowStep(t)
        \/ SolveInit(t)
        \/ SolveStep(t)
        \/ SolveFinish(t)
        \/ Respond(t)

SpecConcurrent == InitConcurrent /\ [][NextConcurrent]_vars

-----------------------------------------------------------------------------
(* Properties *)

\* the weight of the edge between u and v
W(g, u, v) == g.edge[{u, v}].weight

RECURSIVE BruteMin(_, _, _, _)
\* the least sum of weights over the simple paths from u to e that avoid
\* seen, by exhaustive search; Infinity or more when there is none
BruteMin(g, u, e, seen) ==
    IF u = e THEN 0
    ELSE LET opts == {W(g, u, v) + BruteMin(g, v, e, seen \cup {v}) :
                          v \in Neighbors(g, u) \ seen}
         IN  IF opts = {} THEN Infinity ELSE SetMin(opts)

\* the sum of the weights along a path
PathCost(g, path) == SumSeq([i \in 1..(Len(path) - 1) |-> W(g, path[i], path[i + 1])])

\* thread 1 has been served by dijkstra_shortest_path without an exception
Solved == pc[1] = "done" /\ sol[1].returned /\ sol[1].raised = ""

\* C1: on a graph of non-negative weights, for graph nodes start and end
\* with end reachable from start, the total cost dijkstra_shortest_path
\* returns is the least sum of edge weights over all paths from start to end
C1_CostIsMinimum ==
    (/\ Solved
     /\ \A e \in DOMAIN graph.edge : graph.edge[e].weight >= 0
     /\ BruteMin(graph, sol[1].start, sol[1].end, {sol[1].start}) < Infinity)
    => /\ sol[1].path # <<>>
       /\ sol[1].total_cost = BruteMin(graph, sol[1].start, sol[1].end, {sol[1].start})

\* a solved request between two graph nodes joined by an edge that is not
\* the cheapest way between them
C1_Witness ==
    /\ Solved
    /\ req[1].start = sol[1].start
    /\ req[1].end = sol[1].end
    /\ HasEdge(graph, sol[1].start, sol[1].end)
    /\ Len(sol[1].path) = 3
    /\ sol[1].total_cost < W(graph, sol[1].start, sol[1].end)
    /\ sol[1].total_cost > 0

-----------------------------------------------------------------------------

\* the raw edge set has exactly two connected components
TwoComponents == Len(connected_components) = 2

\* s is a node of one component and e a node of another
Apart(s, e) ==
    \E i, j \in DOMAIN connected_components :
        i # j /\ s \in connected_components[i] /\ e \in connected_components[j]

\* the component create_enhanced_graph selects, {} when none is valid
Selected ==
    LET valid == ValidComponents(connected_components, MinComponentSize)
    IN  IF valid = <<>> THEN {} ELSE LargestValid(valid)

\* find_optimal_route has returned the failure result
Failure(r) ==
    r.returned /\ r.raised = "" /\ ~r.success /\ r.path = <<>> /\ r.total_cost = Infinity

\* C2 as stated: on an edge set of two components, a route from a node of
\* one to a node of the other is the failure result (success=false, empty
\* path, infinite cost)
C2_Original ==
    (pc[1] = "done" /\ TwoComponents /\ Apart(req[1].start, req[1].end))
    => Failure(result[1])

\* C2 amended: on an edge set of two components, a route from a node of one
\* to a node of the other is never the failure result; the node outside the
\* selected component is replaced by the nearest node of the selected
\* component, and a returned result has success=true, a finite total cost
\* and a non-empty path inside the selected component
C2_RoutedInsideSelected ==
    (pc[1] = "done" /\ TwoComponents /\ Apart(req[1].start, req[1].end))
    => /\ ~Failure(result[1])
       /\ result[1].raised = ""
          => /\ result[1].success
             /\ result[1].path # <<>>
             /\ result[1].total_cost < Infinity
             /\ Range(result[1].path) \subseteq Selected
             /\ \A n \in Selected :
                   /\ Dist2(req[1].start, result[1].path[1]) <= Dist2(req[1].start, n)
                   /\ Dist2(req[1].end, Last(result[1].path)) <= Dist2(req[1].end, n)

\* a route asked between the two components and returned with success
C2_Witness ==
    /\ pc[1] = "done" /\ TwoComponents /\ Apart(req[1].start, req[1].end)
    /\ result[1].success
    /\ Len(result[1].path) >= 2
    /\ req[1].end \notin Selected

\* C3: when a query point is not a node of the non-empty graph, the returned
\* path begins (ends) at a graph node at the least Euclidean distance from
\* the start (end) point, the node find_closest_nodes(point, 1) returns; a
\* point that is a graph node is used unchanged
C3_Snapping ==
    (Solved /\ graph.nodes # <<>> /\ sol[1].path # <<>>)
    => LET path == sol[1].path
           ok(point, node) ==
               IF InGraph(graph, point) THEN node = point
               ELSE /\ InGraph(graph, node)
                    /\ \A n \in Range(graph.nodes) : Dist2(point, node) <= Dist2(point, n)
                    /\ node = FindClosestNodes(graph, point, 1)[1][1]
       IN  ok(req[1].start, path[1]) /\ ok(req[1].end, Last(path))

\* a path returned for a start and an end that are both not graph nodes,
\* each with a graph node farther away than the one used
C3_Witness ==
    /\ Solved
    /\ Len(sol[1].path) >= 2
    /\ ~InGraph(graph, req[1].start)
    /\ ~InGraph(graph, req[1].end)
    /\ \E n \in Range(graph.nodes) : Dist2(req[1].start, n) > Dist2(req[1].start, sol[1].path[1])
    /\ \E n \in Range(graph.nodes) : Dist2(req[1].end, n) > Dist2(req[1].end, Last(sol[1].path))
    /\ graph.nodes[1] # sol[1].path[1]

\* the edge set yields fewer than 2 nodes, or no component has
\* min_component_size nodes
Insufficient ==
    \/ Cardinality(Range(NodeOrder(graph_data))) < 2
    \/ ValidComponents(connected_components, MinComponentSize) = <<>>

\* C5: with fewer than 2 nodes or no component of the minimum size,
\* find_optimal_route reports a failure result and raises no exception
C5_FailureNotCrash ==
    (pc[1] = "done" /\ Insufficient)
    => (result[1].returned /\ result[1].raised = "" /\ ~result[1].success)

\* the weight each strategy is said to give, in tenths of a cost unit, to an
\* edge of distance d and safety probability p tenths
StatedWeight(cost_function, d, p) ==
    IF cost_function = "distance" THEN 10 * d
    ELSE IF cost_function = "safety" THEN (10 - p) * 1000
    ELSE IF cost_function = "combined" THEN 10 * d + (10 - p) * 1000
    ELSE IF cost_function = "flood_risk" THEN (10 - p) * 10000 + d
    ELSE 10 * d

\* C7: every edge kept by create_enhanced_graph, of distance d and safety
\* probability p, has the weight d for 'distance', (1 - p) * 1000 for
\* 'safety', d + (1 - p) * 1000 for 'combined', (1 - p) * 10000 + d * 0.1
\* for 'flood_risk' and d for any other strategy name
C7_WeightFormula ==
    pc[1] = "done"
    => \A e \in DOMAIN graph.edge :
          graph.edge[e].weight =
              StatedWeight(req[1].cost_function, graph.edge[e].distance,
                           graph.edge[e].safety_prob)

\* a graph built for 'flood_risk' and one built for an unrecognized name,
\* each with an edge of positive distance and a risk that is not zero
C7_Witness ==
    /\ pc[1] = "done"
    /\ req[1].cost_function \in {"flood_risk", "fastest"}
    /\ \E e \in DOMAIN graph.edge :
          /\ graph.edge[e].distance > 0
          /\ graph.edge[e].safety_prob \notin {5, 10}
    /\ Cardinality(DOMAIN graph.edge) >= 3

\* C8: with every distance >= 0 and every registered probability in [0,1],
\* every edge weight of the built graph is non-negative, whatever the strategy
C8_NonNegativeWeights ==
    (/\ \A i \in DOMAIN graph_data : graph_data[i].cost >= 0
     /\ \A h \in DOMAIN safety_weights : safety_weights[h] \in 0..10)
    => \A e \in DOMAIN graph.edge : graph.edge[e].weight >= 0

\* a graph built for a strategy that uses the probability, holding an edge
\* of probability 1 (weight from the distance alone) and one of probability 0
C8_Witness ==
    /\ pc[1] = "done"
    /\ req[1].cost_function = "combined"
    /\ \E e \in DOMAIN graph.edge : graph.edge[e].safety_prob = 10
    /\ \E e \in DOMAIN graph.edge : graph.edge[e].safety_prob = 0

\* C9: an edge whose segment id is not in the safety mapping is built with
\* the probability 0.5, in its weight and in its safety_prob attribute; an
\* edge whose id is in the mapping gets the registered probability; the
\* build raises nothing
C9_DefaultSafety ==
    pc[1] = "done"
    => /\ graph.created
       /\ \A e \in DOMAIN graph.edge :
             LET id == graph.edge[e].segment_id
                 p == IF id \in DOMAIN safety_weights THEN safety_weights[id] ELSE 5
             IN  /\ graph.edge[e].safety_prob = p
                 /\ graph.edge[e].weight =
                        StatedWeight(req[1].cost_function, graph.edge[e].distance, p)

\* a graph built for 'safety' with an edge of unknown segment id beside an
\* edge of known id
C9_Witness ==
    /\ pc[1] = "done"
    /\ req[1].cost_function = "safety"
    /\ \E e \in DOMAIN graph.edge : graph.edge[e].segment_id \notin DOMAIN safety_weights
    /\ \E e \in DOMAIN graph.edge :
          /\ graph.edge[e].segment_id \in DOMAIN safety_weights
          /\ graph.edge[e].safety_prob # 5

\* the 4-node square with the safeties A-B 0.9, A-D 0.2, D-C 0.9, B-C 0.9
Square ==
    /\ graph_data = SquareRows
    /\ safety_weights = (1 :> 9 @@ 2 :> 2 @@ 3 :> 9 @@ 4 :> 9)

\* C10: on the square, the A to C cost under 'distance' is 20, and under
\* 'safety' the path is A, B, C, strictly cheaper than A, D, C
C10_SquareScenario ==
    (pc[1] = "done" /\ Square /\ req[1].start = A /\ req[1].end = C)
    => /\ req[1].cost_function = "distance"
          => (result[1].success /\ result[1].total_cost = 20 * Unit)
       /\ req[1].cost_function = "safety"
          => /\ result[1].success
             /\ result[1].path = <<A, B, C>>
             /\ result[1].total_cost = PathCost(graph, <<A, B, C>>)
             /\ PathCost(graph, <<A, B, C>>) < PathCost(graph, <<A, D, C>>)

\* the square routed from A to C under 'safety'
C10_Witness ==
    /\ pc[1] = "done" /\ Square /\ req[1].start = A /\ req[1].end = C
    /\ req[1].cost_function = "safety"
    /\ result[1].returned

ServedAlone(r) ==
    LET g == CreateEnhancedGraph(r.cost_function)
    IN  RouteResult(DijkstraShortestPath(g, r.start, r.end), r.cost_function)

\* C4: two find_optimal_route calls of different strategies interleaved on
\* the shared router each return the path and total cost they return when
\* run alone, and no search runs over a graph weighted by the other call's
\* strategy or over a partially built graph
C4_Stateless ==
    (/\ \A t \in Threads : req[t] # NoRequest
     /\ req[1].cost_function # req[2].cost_function)
    => \A t \in Threads :
          /\ pc[t] = "done"
             => /\ result[t].raised = ServedAlone(req[t]).raised
                /\ result[t].path = ServedAlone(req[t]).path
                /\ result[t].total_cost = ServedAlone(req[t]).total_cost
          /\ pc[t] = "loop" => graph = CreateEnhancedGraph(req[t].cost_function)

-----------------------------------------------------------------------------

\* a / n >= b / m for the means <<a, n>> and <<b, m>> (sum, count)
MeanGeq(x, y) == x[1] * y[2] >= y[1] * x[2]

\* the sum of 1 - safety_prob (tenths) over the segments of a route
Unsafety(r) ==
    SumSeq([k \in DOMAIN r.path_details.segments |->
               10 - r.path_details.segments[k].safety_prob])

\* both 'safety' and 'distance' found a route for the pair compared
BothRouted == {"safety", "distance"} \subseteq DOMAIN cmp.results

\* C11 as stated: for a fixed pair of points for which both strategies find
\* a route, the avg_safety reported under 'safety' is at least the
\* avg_safety reported under 'distance'
C11_Original ==
    BothRouted
    => MeanGeq(cmp.results["safety"].path_details.avg_safety,
               cmp.results["distance"].path_details.avg_safety)

\* C11 amended: for a fixed pair of points for which both strategies find a
\* route, the sum of 1 - safety_prob over the segments of the 'safety' route
\* is at most that sum over the segments of the 'distance' route, and the
\* avg_safety under 'safety' is at least the avg_safety under 'distance'
\* whenever the 'safety' route has at least as many segments
C11_SafetyRouteLeastUnsafe ==
    BothRouted
    => LET s == cmp.results["safety"]
           d == cmp.results["distance"]
       IN  /\ Unsafety(s) <= Unsafety(d)
           /\ Len(s.path_details.segments) >= Len(d.path_details.segments)
              => MeanGeq(s.path_details.avg_safety, d.path_details.avg_safety)

\* both strategies routed the pair, over different paths of the same number
\* of segments, the 'safety' route with the higher avg_safety
C11_Witness ==
    /\ BothRouted
    /\ cmp.results["safety"].path # cmp.results["distance"].path
    /\ Len(cmp.results["safety"].path) = Len(cmp.results["distance"].path)
    /\ ~MeanGeq(cmp.results["distance"].path_details.avg_safety,
                cmp.results["safety"].path_details.avg_safety)

-----------------------------------------------------------------------------

\* the safety_prob attributes of the edges between the consecutive nodes of
\* a path, in path order
EdgeSafeties(g, path) ==
    [i \in 1..(Len(path) - 1) |-> g.edge[{path[i], path[i + 1]}].safety_prob]

\* C12: for a path of two or more nodes, avg_safety of the path detail is
\* the arithmetic mean of the safety_prob of the edges between consecutive
\* path nodes, min_safety is their minimum and max_safety their maximum
C12_Aggregates ==
    (Solved /\ Len(sol[1].path) >= 2)
    => LET d == sol[1].path_details
           ps == EdgeSafeties(graph, sol[1].path)
       IN  /\ d.has_stats
           /\ d.avg_safety[2] > 0
           /\ d.avg_safety[1] * Len(ps) = SumSeq(ps) * d.avg_safety[2]
           /\ d.min_safety \in Range(ps)
           /\ \A k \in DOMAIN ps : d.min_safety <= ps[k]
           /\ d.max_safety \in Range(ps)
           /\ \A k \in DOMAIN ps : d.max_safety >= ps[k]

\* a path of three edges whose last edge alone has the least probability,
\* with a mean strictly between the extremes
C12_Witness ==
    /\ Solved
    /\ Len(sol[1].path) = 4
    /\ LET d == sol[1].path_details
           ps == EdgeSafeties(graph, sol[1].path)
       IN  /\ ps[3] < ps[1] /\ ps[3] < ps[2]
           /\ d.min_safety = ps[3]
           /\ d.min_safety * d.avg_safety[2] < d.avg_safety[1]
           /\ d.avg_safety[1] < d.max_safety * d.avg_safety[2]

-----------------------------------------------------------------------------

\* compare_routing_strategies has returned
Compared == pc[1] = "compared"

\* what find_optimal_route returns for the pair compared under a strategy
AloneUnder(strategy) ==
    ServedAlone([start |-> cmp.start, end |-> cmp.end, cost_function |-> strategy])

\* C13: compare_routing_strategies runs find_optimal_route once for each of
\* 'distance', 'safety', 'combined' and 'flood_risk', in that order; its
\* result has a key for exactly the strategies whose route succeeded, a
\* strategy that fails or raises is absent, and no failure keeps the
\* remaining strategies from being run
C13_CompareCollectsSuccesses ==
    Compared
    => /\ cmp.raised = ""
       /\ cmp.tried = <<"distance", "safety", "combined", "flood_risk">>
       /\ DOMAIN cmp.results =
              {s \in Range(cmp.tried) : AloneUnder(s).raised = "" /\ AloneUnder(s).success}
       /\ \A s \in DOMAIN cmp.results :
              /\ cmp.results[s].success
              /\ cmp.results[s].cost_function = s
              /\ cmp.results[s].path = AloneUnder(s).path

\* a comparison in which every call of find_optimal_route raised and all
\* four strategies were run all the same
C13_Witness ==
    /\ Compared
    /\ \A s \in Range(Strategies) : AloneUnder(s).raised # ""
    /\ Len(cmp.tried) = 4
    /\ DOMAIN cmp.results = {}

\* a comparison in which all four strategies succeeded and are all kept
C13_WitnessAllKept ==
    /\ Compared
    /\ DOMAIN cmp.results = Range(Strategies)
    /\ cmp.results["distance"].path # cmp.results["flood_risk"].path

-----------------------------------------------------------------------------

\* the nodes the edge records name
RawNodes == {graph_data[i].from : i \in DOMAIN graph_data}
                \cup {graph_data[i].to : i \in DOMAIN graph_data}

\* the connected component of the edge records that holds the node n
ComponentOf(n) == Closure({n}, graph_data)

\* the connected components of at least min_component_size nodes
AdequateComponents ==
    {T \in {ComponentOf(n) : n \in RawNodes} : Cardinality(T) >= MinComponentSize}

\* C14: the graph create_enhanced_graph builds has the edge of a record
\* exactly when both end points of the record lie in the selected
\* component, a connected component of the greatest size among those of at
\* least min_component_size nodes; every other record is dropped and
\* nothing is raised
C14_SelectedComponentOnly ==
    pc[1] = "done"
    => LET S == Range(graph.nodes)
       IN  /\ graph.created
           /\ AdequateComponents = {} => (S = {} /\ DOMAIN graph.edge = {})
           /\ AdequateComponents # {}
              => /\ S \in AdequateComponents
                 /\ \A T \in AdequateComponents : Cardinality(T) <= Cardinality(S)
                 /\ \A i \in DOMAIN graph_data :
                        HasEdge(graph, graph_data[i].from, graph_data[i].to)
                        <=> (graph_data[i].from \in S /\ graph_data[i].to \in S)
                 /\ \A e \in DOMAIN graph.edge :
                        \E i \in DOMAIN graph_data :
                            e = {graph_data[i].from, graph_data[i].to}

\* a graph built from records of two adequate components of different
\* sizes: the records of the smaller one are dropped
C14_Witness ==
    /\ pc[1] = "done"
    /\ Cardinality(AdequateComponents) = 2
    /\ \E T \in AdequateComponents : Cardinality(T) < Cardinality(Range(graph.nodes))
    /\ \E i \in DOMAIN graph_data :
           ~HasEdge(graph, graph_data[i].from, graph_data[i].to)
    /\ Cardinality(DOMAIN graph.edge) >= 2

-----------------------------------------------------------------------------

\* the segment_id attribute stored on the edge a reported segment runs over
StoredId(seg) == graph.edge[{seg.from, seg.to}].segment_id

\* C15: the segment id reported for an edge of the path is the mapped id
\* when the stored segment id of the edge has an entry in segment_id_map,
\* and the stored id itself when it has none
C15_SegmentIdResolved ==
    Solved
    => \A k \in DOMAIN sol[1].path_details.segments :
          LET seg == sol[1].path_details.segments[k]
          IN  /\ StoredId(seg) \in DOMAIN segment_id_map
                 => seg.segment_id = segment_id_map[StoredId(seg)]
              /\ StoredId(seg) \notin DOMAIN segment_id_map
                 => seg.segment_id = StoredId(seg)

\* a path with one segment whose stored id is mapped to another id and one
\* segment whose stored id has no entry
C15_Witness ==
    /\ Solved
    /\ \E k \in DOMAIN sol[1].path_details.segments :
           LET seg == sol[1].path_details.segments[k]
           IN  /\ StoredId(seg) \in DOMAIN segment_id_map
               /\ seg.segment_id # StoredId(seg)
    /\ \E k \in DOMAIN sol[1].path_details.segments :
           LET seg == sol[1].path_details.segments[k]
           IN  /\ StoredId(seg) \notin DOMAIN segment_id_map
               /\ seg.segment_id = StoredId(seg)

-----------------------------------------------------------------------------

\* C16: a non-empty path dijkstra_shortest_path returns starts at the
\* (possibly snapped) start node, ends at the (possibly snapped) end node,
\* holds no node twice, and every two consecutive nodes of it are joined by
\* an edge of the graph
C16_SimplePath ==
    (Solved /\ sol[1].path # <<>>)
    => LET path == sol[1].path
       IN  /\ path[1] = SnapNode(graph, req[1].start)
           /\ Last(path) = SnapNode(graph, req[1].end)
           /\ \A i, j \in DOMAIN path : path[i] = path[j] => i = j
           /\ \A i \in 1..(Len(path) - 1) : HasEdge(graph, path[i], path[i + 1])
           /\ Range(path) \subseteq Range(graph.nodes)

\* a path of four nodes on a graph with a cycle and an edge of weight 0,
\* from a snapped start
C16_Witness ==
    /\ Solved
    /\ Len(sol[1].path) = 4
    /\ ~InGraph(graph, req[1].start)
    /\ Cardinality(DOMAIN graph.edge) >= Len(graph.nodes)
    /\ \E e \in DOMAIN graph.edge : graph.edge[e].weight = 0

-----------------------------------------------------------------------------

\* C17: for a path of fewer than two nodes, the path detail has no segment
\* and every aggregate is present and zero: total_distance, avg_safety,
\* min_safety, max_safety and safety_std (has_stats: the last three are
\* keys of the detail)
C17_ShortPathZeroAggregates ==
    (Solved /\ sol[1].path_details.present /\ Len(sol[1].path) < 2)
    => LET d == sol[1].path_details
       IN  /\ d.segments = <<>>
           /\ d.total_distance = 0
           /\ d.avg_safety[1] = 0
           /\ d.has_stats
           /\ d.min_safety = 0
           /\ d.max_safety = 0

-----------------------------------------------------------------------------

\* an edge record names a node key that does not parse into two numbers
MalformedRecord ==
    \E i \in DOMAIN graph_data :
        ~Parsable(graph_data[i].from) \/ ~Parsable(graph_data[i].to)

\* C18: an edge record whose node key does not parse into two numbers is
\* rejected as a fault by the graph builder before any graph is built; the
\* key never reaches the graph, and it never fails first in the solve step
\* (snapping or search)
C18_MalformedKeyRejectedByBuilder ==
    (pc[1] = "done" /\ MalformedRecord)
    => /\ result[1].raised # ""
       /\ \A n \in Range(graph.nodes) : Parsable(n)
       /\ ~sol[1].returned

-----------------------------------------------------------------------------

\* C19: find_closest_nodes(point, k) returns min(k, number of graph nodes)
\* pairs (node, distance from point to node), in ascending order of
\* distance, and no graph node left out is strictly closer to the point
\* than a node returned
C19_ClosestNodes ==
    (closest.called /\ closest.raised = "")
    => LET out == closest.out
           k == closest.num_candidates
           n == Len(graph.nodes)
           point == closest.target_coords
       IN  /\ Len(out) = IF k < n THEN k ELSE n
           /\ \A i \in DOMAIN out :
                  /\ InGraph(graph, out[i][1])
                  /\ out[i][2] = Dist2(point, out[i][1])
           /\ \A i, j \in DOMAIN out : i < j => out[i][2] <= out[j][2]
           /\ \A i, j \in DOMAIN out : out[i][1] = out[j][1] => i = j
           /\ \A m \in Range(graph.nodes) \ {out[i][1] : i \in DOMAIN out} :
                  \A i \in DOMAIN out : Dist2(point, m) >= out[i][2]

\* two of four or more nodes returned, not in the order the graph holds
\* them, with a node left out that is strictly farther
C19_Witness ==
    /\ closest.called /\ closest.raised = ""
    /\ closest.num_candidates = 2
    /\ Len(graph.nodes) >= 4
    /\ Len(closest.out) = 2
    /\ closest.out[1][2] < closest.out[2][2]
    /\ closest.out[1][1] # graph.nodes[1]
    /\ closest.out[2][1] # graph.nodes[2]
    /\ \E m \in Range(graph.nodes) :
           Dist2(closest.target_coords, m) > closest.out[2][2]

-----------------------------------------------------------------------------

RECURSIVE Reach(_, _)
\* the nodes joined to a node of S by the edges of the graph
Reach(g, S) ==
    LET T == S \cup UNION {Neighbors(g, n) : n \in S}
    IN  IF T = S THEN S ELSE Reach(g, T)

\* thread t is about to search a graph in which the node its end point
\* snaps to is not reachable from the node its start point snaps to
Unreachable(t) ==
    /\ pc[t] = "solve"
    /\ graph.created
    /\ graph.nodes # <<>>
    /\ SnapNode(graph, req[t].end)
           \notin Reach(graph, {SnapNode(graph, req[t].start)})

\* C20: when the (possibly snapped) end node is not reachable from the
\* (possibly snapped) start node in the graph searched,
\* dijkstra_shortest_path returns an empty path, infinite cost and an empty
\* detail and raises nothing, and find_optimal_route returns success=false,
\* an empty path and infinite total cost
C20_UnreachableIsFailure ==
    [][\A t \in Threads :
          (Unreachable(t) /\ pc'[t] = "done")
          => /\ sol'[t].returned
             /\ sol'[t].raised = ""
             /\ sol'[t].path = <<>>
             /\ sol'[t].total_cost = Infinity
             /\ ~sol'[t].path_details.present
             /\ Failure(result'[t])]_vars

\* a search over a graph of two separate edges, A-B and D-C, from A to C,
\* has ended with the failure result
C20_Witness ==
    \E t \in Threads :
        /\ pc[t] = "done"
        /\ Failure(result[t])
        /\ sol[t].path = <<>> /\ sol[t].raised = ""
        /\ Cardinality(DOMAIN graph.edge) = 2
        /\ Len(graph.nodes) = 4
        /\ req[t].start = A /\ req[t].end = C

-----------------------------------------------------------------------------

\* the squared distance from a start point to a safe point
PointDist2(start, p) ==
    (p[1] - ParseKey(start)[1]) * (p[1] - ParseKey(start)[1])
        + (p[2] - ParseKey(start)[2]) * (p[2] - ParseKey(start)[2])

\* a request with a start and no usable end has been handled
NoEndHandled == response.kind # "none" /\ response.end = None

\* C21: for a request with a start and no usable end, the router is called
\* with the safe point of least Euclidean distance to the start as end, the
\* first such point of the list on a tie; with no safe point configured the
\* response is an error and the router is not called
C21_NearestSafePoint ==
    NoEndHandled
    => /\ safe_points_utm = <<>>
          => /\ response.kind = "error"
             /\ ~result[1].returned
             /\ req[1] = NoRequest
       /\ safe_points_utm # <<>>
          => /\ result[1].returned
             /\ req[1].start = response.start
             /\ \E i \in DOMAIN safe_points_utm :
                    /\ req[1].end = MkKey(safe_points_utm[i][1], safe_points_utm[i][2], 1)
                    /\ \A j \in DOMAIN safe_points_utm :
                           /\ PointDist2(response.start, safe_points_utm[i])
                                  <= PointDist2(response.start, safe_points_utm[j])
                           /\ j < i => PointDist2(response.start, safe_points_utm[i])
                                           < PointDist2(response.start, safe_points_utm[j])

\* a request without end routed to the first of two safe points at the
\* same least distance, which is not the first point of the list
C21_Witness ==
    /\ NoEndHandled
    /\ response.kind = "route"
    /\ Len(safe_points_utm) = 4
    /\ req[1].end = MkKey(10, 10, 1)
    /\ PointDist2(response.start, safe_points_utm[2])
           = PointDist2(response.start, safe_points_utm[3])

\* a request without end refused for want of safe points
C21_WitnessRefused ==
    /\ NoEndHandled
    /\ safe_points_utm = <<>>
    /\ response.status \in {400, 500}

-----------------------------------------------------------------------------

\* the place in the edge list of the first record that names a node of T
FirstSeen(T) ==
    SetMin({i \in DOMAIN graph_data :
               graph_data[i].from \in T \/ graph_data[i].to \in T})

\* C22: the component selected is a function of the edge list and its
\* order alone, the same in every build: of the adequate components of the
\* greatest size it is the one met first in the edge list
C22_SelectionDeterministic ==
    (graph.created /\ AdequateComponents # {})
    => LET S == Range(graph.nodes)
       IN  /\ S \in AdequateComponents
           /\ \A T \in AdequateComponents \ {S} :
                  /\ Cardinality(T) <= Cardinality(S)
                  /\ Cardinality(T) = Cardinality(S) => FirstSeen(S) < FirstSeen(T)

\* a graph built from an edge list with two components of
\* three nodes each
C22_Witness ==
    /\ pc[1] = "done"
    /\ Cardinality(AdequateComponents) = 2
    /\ \A T \in AdequateComponents : Cardinality(T) = 3
    /\ Len(graph.nodes) = 3

-----------------------------------------------------------------------------

\* thread 1 is in the loop of lines 227-251, nothing raised
Searching == pc[1] = "loop" /\ loc[1].raised = ""

\* the entry heappop takes next is of a node marked visited already
StalePop ==
    /\ Searching
    /\ DijkstraRunning(loc[1])
    /\ HeapMin(loc[1].pq)[2] \in loc[1].visited

\* C23: a search that entered the loop leaves it; the loop goes on exactly
\* while the queue holds an entry and the target was not popped; every node
\* is marked visited once (the marks counted are the nodes marked); a turn
\* leaves the distance and predecessor of each visited node alone, and a
\* turn that pops a visited node changes nothing but the queue
C23_LoopTerminates ==
    /\ (pc[1] = "loop") ~> (pc[1] = "done")
    /\ [](Searching =>
             /\ loc[1].nodes_explored = Cardinality(loc[1].visited)
             /\ loc[1].brk <=> loc[1].end \in loc[1].visited
             /\ DijkstraRunning(loc[1])
                    <=> (loc[1].pq # {} /\ loc[1].end \notin loc[1].visited))
    /\ [][(Searching /\ Searching' /\ loc'[1] # loc[1])
            => LET l == loc[1]
                   m == loc'[1]
                   top == HeapMin(l.pq)
               IN  /\ l.visited \subseteq m.visited
                   /\ \A n \in l.visited :
                          /\ m.distances[n] = l.distances[n]
                          /\ m.previous[n] = l.previous[n]
                   /\ \A e \in m.pq \ l.pq : e[2] \notin l.visited
                   /\ top[2] \in l.visited => m = [l EXCEPT !.pq = l.pq \ {top}]]_vars

\* the loop is about to pop an entry of a node it has visited
C23_Witness == StalePop /\ Cardinality(loc[1].visited) >= 3

-----------------------------------------------------------------------------

\* the graph a router that has served no call builds for a strategy: the
\* records added to an empty graph
FreshGraph(cost_function) ==
    LET valid == ValidComponents(connected_components, MinComponentSize)
    IN  IF valid = <<>>
        THEN EmptyGraph
        ELSE AddRows(EmptyGraph, graph_data, cost_function, LargestValid(valid))

\* what that router returns for a request
FreshResult(r) ==
    RouteResult(DijkstraShortestPath(FreshGraph(r.cost_function), r.start, r.end),
                r.cost_function)

\* a record of the edge source joins u and v
Recorded(u, v) ==
    \E i \in DOMAIN graph_data : {graph_data[i].from, graph_data[i].to} = {u, v}

-----------------------------------------------------------------------------

\* C25: no step of dijkstra_shortest_path, _get_path_details included,
\* changes the graph (its nodes, edges, weights, edge attributes), the
\* safety mapping, the translation table or the connected components, and
\* no step of find_optimal_route changes a field of the router other than
\* its graph
C25_ReadOnlySearch ==
    [][/\ pc[1] \in {"solve", "loop"} => graph' = graph
       /\ routerData' = routerData]_vars

\* a route of two segments reported with translated segment ids, the graph
\* holding the untranslated ones
C25_Witness ==
    /\ pc[1] = "done"
    /\ result[1].success
    /\ Len(result[1].path_details.segments) >= 2
    /\ \A k \in DOMAIN result[1].path_details.segments :
           LET seg == result[1].path_details.segments[k]
           IN  seg.segment_id # graph.edge[{seg.from, seg.to}].segment_id

-----------------------------------------------------------------------------

\* C26: the safety probability reported for a segment of the route is the
\* probability registered in safety_weights for the segment id reported
\* with it (the id after translation through segment_id_map), or 0.5 when
\* none is registered for that id
C26_SafetyOfReportedId ==
    Solved
    => \A k \in DOMAIN sol[1].path_details.segments :
          LET seg == sol[1].path_details.segments[k]
          IN  seg.safety_prob = SafetyOf(seg.segment_id)

-----------------------------------------------------------------------------

\* the places in the edge list of the records that join the pair e
RecordsOf(e) ==
    {i \in DOMAIN graph_data : {graph_data[i].from, graph_data[i].to} = e}

\* C27: the built graph holds one edge for each pair of nodes joined by
\* records of the selected component, and the weight, distance, safety
\* probability and segment id of the edge are those the builder computes
\* for the last of the records that join the pair, whichever of them
\* weighs least
C27_LastRecordWins ==
    (pc[1] = "done" /\ graph.created)
    => /\ \A e \in DOMAIN graph.edge : RecordsOf(e) # {}
       /\ \A i \in DOMAIN graph_data :
              LET e == {graph_data[i].from, graph_data[i].to}
                  row == graph_data[SetMax(RecordsOf(e))]
              IN  e \subseteq Range(graph.nodes)
                  => /\ e \in DOMAIN graph.edge
                     /\ graph.edge[e].weight
                            = Weight(req[1].cost_function, row.cost,
                                     SafetyOf(row.road_segment_id))
                     /\ graph.edge[e].distance = row.cost
                     /\ graph.edge[e].safety_prob = SafetyOf(row.road_segment_id)
                     /\ graph.edge[e].segment_id = row.road_segment_id

\* A and B joined by two records, the later one the heavier, in a built graph
C27_Witness ==
    /\ pc[1] = "done"
    /\ {A, B} \in DOMAIN graph.edge
    /\ Cardinality(RecordsOf({A, B})) = 2
    /\ \E i \in RecordsOf({A, B}) :
           /\ i < SetMax(RecordsOf({A, B}))
           /\ Weight(req[1].cost_function, graph_data[i].cost,
                     SafetyOf(graph_data[i].road_segment_id)) < graph.edge[{A, B}].weight

-----------------------------------------------------------------------------

\* start and end of the request of thread 1 were resolved to one node
SameNode ==
    /\ Solved
    /\ sol[1].start # None
    /\ sol[1].start = sol[1].end

\* C28: when start and end resolve to the same node, find_optimal_route
\* raises nothing and returns a result whose path is that node alone, whose
\* total cost is 0 and whose detail has no segment and zero aggregates
C28_SameNodeRoute ==
    SameNode
    => /\ result[1].raised = ""
       /\ result[1].path = <<sol[1].start>>
       /\ result[1].total_cost = 0
       /\ result[1].path_details.segments = <<>>
       /\ result[1].path_details.total_distance = 0
       /\ result[1].path_details.avg_safety[1] = 0
       /\ result[1].path_details.min_safety = 0
       /\ result[1].path_details.max_safety = 0

-----------------------------------------------------------------------------

\* C29: in every successful result of find_optimal_route, total_cost is the
\* sum of the weights of the graph's edges between consecutive nodes of the
\* path, the detail has len(path) - 1 segments, the i-th from path[i] to
\* path[i + 1] with that edge's distance, and total_distance is the sum of
\* the distances of those edges
C29_ResultAddsUp ==
    (pc[1] = "done" /\ result[1].returned /\ result[1].success)
    => LET path == result[1].path
           d == result[1].path_details
       IN  /\ \A i \in 1..(Len(path) - 1) : HasEdge(graph, path[i], path[i + 1])
           /\ result[1].total_cost = PathCost(graph, path)
           /\ Len(d.segments) = Len(path) - 1
           /\ \A i \in DOMAIN d.segments :
                  /\ d.segments[i].from = path[i]
                  /\ d.segments[i].to = path[i + 1]
                  /\ d.segments[i].distance = graph.edge[{path[i], path[i + 1]}].distance
           /\ d.total_distance
                  = SumSeq([i \in 1..(Len(path) - 1) |->
                               graph.edge[{path[i], path[i + 1]}].distance])

\* a successful result with a path of three edges of different weights
C29_Witness ==
    /\ pc[1] = "done"
    /\ result[1].success
    /\ Len(result[1].path) = 4
    /\ Cardinality({W(graph, result[1].path[i], result[1].path[i + 1]) : i \in 1..3}) >= 2

-----------------------------------------------------------------------------

\* one turn of the loop with the test of lines 236-237 never true
TurnWithoutBreak(g, l) == [DijkstraStep(g, [l EXCEPT !.end = None]) EXCEPT !.end = l.end]

RECURSIVE ToEmptyQueue(_, _)
\* the locals after the loop has run until the queue is empty
ToEmptyQueue(g, l) ==
    IF l.raised # "" \/ l.pq = {} THEN l ELSE ToEmptyQueue(g, TurnWithoutBreak(g, l))

\* the least sum of weights over the paths from the start of the search to n
Shortest(n) == BruteMin(graph, loc[1].start, n, {loc[1].start})

\* C30: the weights being non-negative, in every state of the loop the
\* tentative distance of each visited node is the least sum of weights
\* over the paths from the start to it, no turn changes the tentative
\* distance of a visited node, and the cost returned after stopping at the
\* target is the target's distance after a loop run until the queue is empty
C30_VisitedAreFinal ==
    /\ [](Searching
             => /\ \A e \in DOMAIN graph.edge : graph.edge[e].weight >= 0
                /\ \A n \in loc[1].visited : loc[1].distances[n] = Shortest(n))
    /\ [][(Searching /\ Searching')
            => \A n \in loc[1].visited : loc'[1].distances[n] = loc[1].distances[n]]_vars
    /\ []((pc[1] = "done" /\ sol[1].returned /\ sol[1].raised = "" /\ loc[1].raised = "")
             => LET full == ToEmptyQueue(graph, DijkstraInit(graph, NoLocals, req[1].start,
                                                             req[1].end))
                IN  sol[1].total_cost = full.distances[loc[1].end])

\* a search stopped at the target after three turns or more, entries still
\* in the queue
C30_Witness ==
    /\ pc[1] = "done"
    /\ sol[1].returned /\ sol[1].raised = ""
    /\ loc[1].brk
    /\ loc[1].pq # {}
    /\ Cardinality(loc[1].visited) >= 3
    /\ Cardinality(loc[1].visited) < Len(graph.nodes)

====
